---- MODULE Spec2Model ----
(***************************************************************************)
(* Model of hailtop.batch.Batch (src/hail/python/hailtop/batch/batch.py):  *)
(* job creation and token minting, the dependency graph, the depth-first   *)
(* linearization and cycle check of Batch.run, and write_output; and of    *)
(* the blocking file systems hail.fs.router_fs.RouterFS and                *)
(* hail.fs.local_fs.LocalFS (src/hail/python/hail/fs).                     *)
(***************************************************************************)
EXTENDS Integers, Sequences, FiniteSets, TLC

\* ---- bounds ----
MaxJobs == 3        \* jobs created on the Batch
MaxCalls == 7       \* calls made on the Batch and its jobs
NumTokens == 2      \* distinct strings the random generator can return
MaxResources == 2   \* resources minted on the Batch
MaxCloses == 2      \* close() calls on one stream
MaxLimit == 2       \* largest concurrency limit passed to copy and ls
MaxEntries == 3     \* entries of a listed directory, objects of a copy
MaxSize == 1        \* largest file size
MaxBatches == 2     \* Batch objects constructed side by side
MaxLen == 2         \* bytes written to the stored object
MaxByte == 1        \* largest byte value
MaxWrites == 2      \* write calls on one stream

JobIds == 1..MaxJobs
NoJob == 0                    \* None
ForeignJob == MaxJobs + 1     \* a Job object that this Batch never appended
MaxDepth == MaxJobs + 2       \* depth of schedule_job frames the interpreter is given

Tokens == 1..NumTokens
ResIds == 1..MaxResources
NotAResource == 0             \* an argument that is not a Resource
Dests == {"rel", "abs", "url"}
None == <<>>                  \* an optional value that is absent; <<v>> is the value v
JobNames == {None, <<<<"a", "b">>>>}                  \* name arguments: None, "ab"
Patterns == {<<"a">>, <<"a", "b">>, <<"b">>}          \* literal patterns "a", "ab", "b"
AttributeMaps == {{}, {"owner"}, {"name"}}   \* key sets of the attributes argument
\* the mappings argument of _new_resource_group: the values in the order of
\* the dict, each a string ("str") or an object of another type ("int")
Mappings == {<<>>, <<"str">>, <<"int">>, <<"str", "str">>, <<"str", "int">>,
             <<"int", "str">>}
Backends == {"local", "service"}

VARIABLES
    jobs,            \* Batch._jobs: sequence of job ids
    job_kind,        \* class of each job: "bash" | "python" | "none" (not created)
    job_token,       \* Job._token, 0 before creation
    job_name,        \* Job.name: None or <<string>>, a string being a sequence of characters
    job_attributes,  \* keys of Job.attributes
    job_tokens,      \* Batch._job_tokens
    dependencies,    \* Job._dependencies
    job_id,          \* Job._job_id, 0 = None
    backend,         \* class of Batch._backend
    backend_runs,    \* number of Backend._run invocations
    resource_map,    \* Batch._resource_map: uid -> [kind, source]
    input_resources, \* Batch._input_resources
    mentioned,       \* Job._mentioned
    output_paths,    \* Resource._output_paths
    pc,              \* position inside Batch.run: "idle" | "schedule"
    dry_run,         \* argument of the running Batch.run call
    seen,            \* run's local set `seen`
    ordered_jobs,    \* run's local list `ordered_jobs`
    stack,           \* active schedule_job frames: [job, todo]
    idx,             \* position of `for j in self._jobs`
    entered,         \* times schedule_job got past `if j in seen` per job
    n_calls,         \* calls made on the Batch and its jobs so far
    last,            \* the last completed call and its outcome
    fs_pc,           \* file-system call in progress: "idle" | "copy" | "ls" | "open"
    stream,          \* a SyncWritableStream: its context manager and async stream
    copy_st,         \* RouterFS.copy: the semaphore it builds and the Copier's transfers
    ls_st,           \* RouterFS.ls: the pool's semaphore and the per-entry tasks
    open_st,         \* LocalFS.open: what the call has done so far
    fs_last,         \* the last completed file-system call and its outcome
    rstream,         \* a SyncReadableStream and what has been read from it
    store,           \* the object stored under the path: None or <<bytes>>
    _counter,        \* the class attribute Batch._counter
    batches,         \* Batch objects constructed side by side: [uid, jobs]
    batch_last       \* the last call on the class Batch or on one of these objects

batchVars == <<jobs, job_kind, job_token, job_name, job_attributes, job_tokens,
               dependencies, job_id, backend, backend_runs>>
resVars == <<resource_map, input_resources, mentioned, output_paths>>
runVars == <<pc, dry_run, seen, ordered_jobs, stack, idx, entered>>
fsVars == <<fs_pc, stream, copy_st, ls_st, open_st, fs_last, rstream, store>>
classVars == <<_counter, batches, batch_last>>
batchSide == <<batchVars, resVars, runVars, n_calls, last, classVars>>
vars == <<batchSide, fsVars>>

AllJobs == JobIds \cup {ForeignJob}

Range(s) == {s[i] : i \in 1..Len(s)}

NoCall == [op |-> "none", outcome |-> "none", pre_jobs |-> <<>>,
           pre_runs |-> 0, pre_job_id |-> [j \in JobIds |-> 0], dry |-> FALSE,
           res |-> 0, dest |-> "none", pre_paths |-> {},
           attributes |-> {}, pattern |-> <<>>, result |-> <<>>,
           mappings |-> <<>>, pre_map |-> [r \in {} |-> 0], pre_inputs |-> {},
           files |-> <<>>]

Limits == 1..MaxLimit
Counts == 0..MaxEntries
Sizes == 0..MaxSize

Bytes == 0..MaxByte
\* byte strings of up to MaxLen bytes
ByteStrings == UNION {[1..n -> Bytes] : n \in 0..MaxLen}

NoStream == [state |-> "none", aws_closed |-> FALSE, cm_exits |-> 0, closes |-> 0,
             written |-> <<>>, asked |-> <<>>, writes |-> 0]
NoReader == [state |-> "none", content |-> <<>>, pos |-> 0, got |-> <<>>,
             eof |-> FALSE, lost |-> FALSE]
NoCopy == [limit |-> 0, sema |-> 0, limiter |-> "none", pending |-> 0, in_flight |-> 0,
           done |-> 0]
NoLs == [limit |-> 0, permits |-> 0, fetch |-> <<>>]
NoOpen == [write |-> FALSE, parent |-> FALSE, missing |-> FALSE, stage |-> "none",
           attempts |-> 0, makedirs |-> 0]
NoFsCall == [op |-> "none", outcome |-> "none", size_bytes |-> None, is_dir |-> FALSE,
             result |-> None, entries |-> 0, missing |-> FALSE, write |-> FALSE,
             attempts |-> 0, makedirs |-> 0, length |-> 0, remaining |-> <<>>]

\* Batch.__init__; no file-system call made yet
Init ==
    /\ jobs = <<>>
    /\ job_kind = [j \in JobIds |-> "none"]
    /\ job_token = [j \in JobIds |-> 0]
    /\ job_name = [j \in JobIds |-> None]
    /\ job_attributes = [j \in JobIds |-> {}]
    /\ job_tokens = {}
    /\ dependencies = [j \in AllJobs |-> {}]
    /\ job_id = [j \in JobIds |-> 0]
    /\ backend \in Backends
    /\ backend_runs = 0
    /\ resource_map = [r \in {} |-> 0]
    /\ input_resources = {}
    /\ mentioned = [j \in JobIds |-> {}]
    /\ output_paths = [r \in ResIds |-> {}]
    /\ pc = "idle"
    /\ dry_run = FALSE
    /\ seen = {}
    /\ ordered_jobs = <<>>
    /\ stack = <<>>
    /\ idx = 0
    /\ entered = [j \in AllJobs |-> 0]
    /\ n_calls = 0
    /\ last = NoCall
    /\ fs_pc = "idle"
    /\ stream = NoStream
    /\ copy_st = NoCopy
    /\ ls_st = NoLs
    /\ open_st = NoOpen
    /\ fs_last = NoFsCall
    /\ rstream = NoReader
    /\ store = None
    /\ _counter = 0
    /\ batches = <<>>
    /\ batch_last = [op |-> "none", batch |-> 0, outcome |-> "none"]

\* the start of a call on the Batch or on one of its jobs; calls do not overlap
Call ==
    /\ pc = "idle"
    /\ n_calls < MaxCalls
    /\ n_calls' = n_calls + 1
    /\ UNCHANGED <<fsVars, classVars>>

\* ---- job creation ----

\* Batch._unique_job_token: draws holds the successive results of
\* secret_alnum_string; the loop re-draws while the token is in _job_tokens.
RECURSIVE _unique_job_token(_, _)
_unique_job_token(draws, used) ==
    IF draws = <<>> THEN 0
    ELSE IF Head(draws) \in used THEN _unique_job_token(Tail(draws), used)
    ELSE Head(draws)

\* Job.__init__ as called from new_bash_job / new_python_job: the job keeps its
\* token, its name and its attributes; its dependency set and mentioned set
\* start empty, its position unset.
JobInit(j, kind, name, attributes, token) ==
    /\ job_kind' = [job_kind EXCEPT ![j] = kind]
    /\ job_token' = [job_token EXCEPT ![j] = token]
    /\ job_name' = [job_name EXCEPT ![j] = name]
    /\ job_attributes' = [job_attributes EXCEPT ![j] = attributes]
    /\ dependencies' = [dependencies EXCEPT ![j] = {}]
    /\ mentioned' = [mentioned EXCEPT ![j] = {}]
    /\ job_id' = [job_id EXCEPT ![j] = 0]

\* lines 305-325 and 380-399: the token, the Job object, the append. Neither
\* method looks into the attributes argument.
NewJobOfKind(kind, name, attributes, draws) ==
    /\ Call
    /\ Len(jobs) < MaxJobs
    /\ LET j == Len(jobs) + 1
           token == _unique_job_token(draws, job_tokens)
       IN /\ token # 0
          /\ JobInit(j, kind, name, attributes, token)
          /\ jobs' = Append(jobs, j)
          /\ last' = [NoCall EXCEPT !.op = "new_job", !.outcome = "ok",
                                    !.pre_jobs = jobs, !.attributes = attributes]
    /\ UNCHANGED <<job_tokens, backend, backend_runs, resource_map,
                   input_resources, output_paths, runVars>>

\* Batch.new_bash_job (and its alias new_job)
new_bash_job(name, attributes, draws) == NewJobOfKind("bash", name, attributes, draws)

\* Batch.new_python_job
new_python_job(name, attributes, draws) == NewJobOfKind("python", name, attributes, draws)

\* Job.depends_on: adds d to j's dependency set
depends_on(j, d) ==
    /\ Call
    /\ j \in Range(jobs)
    /\ d \in Range(jobs) \cup {ForeignJob}
    /\ d \notin dependencies[j]
    /\ dependencies' = [dependencies EXCEPT ![j] = @ \cup {d}]
    /\ last' = [NoCall EXCEPT !.op = "depends_on", !.outcome = "ok"]
    /\ UNCHANGED <<jobs, job_kind, job_token, job_name, job_attributes, job_tokens,
                   job_id, backend, backend_runs, resVars, runVars>>

\* ---- Batch.run ----

\* schedule_job without the test `if j in seen`
schedule_job_revisit(j, st) ==
    [seen |-> st.seen \cup {j},
     stack |-> Append(st.stack, [job |-> j, todo |-> dependencies[j]]),
     entered |-> [st.entered EXCEPT ![j] = @ + 1]]

\* schedule_job without `seen.add(j)`
schedule_job_unmarked(j, st) ==
    IF j \in st.seen THEN st
    ELSE [seen |-> st.seen,
          stack |-> Append(st.stack, [job |-> j, todo |-> dependencies[j]]),
          entered |-> [st.entered EXCEPT ![j] = @ + 1]]

\* schedule_job(j), from the call to the start of the loop over j's
\* dependencies: a seen job returns at once, an unseen one is marked seen and
\* gets a frame holding the dependencies still to visit.
schedule_job(j, st) ==
    IF j \in st.seen THEN st
    ELSE [seen |-> st.seen \cup {j},
          stack |-> Append(st.stack, [job |-> j, todo |-> dependencies[j]]),
          entered |-> [st.entered EXCEPT ![j] = @ + 1]]

RunState == [seen |-> seen, stack |-> stack, entered |-> entered]

SetRunState(st) ==
    /\ seen' = st.seen
    /\ stack' = st.stack
    /\ entered' = st.entered

\* run, lines 680-681: the locals of a new call
RunBegin(dry) ==
    /\ Call
    /\ pc' = "schedule"
    /\ dry_run' = dry
    /\ seen' = {}
    /\ ordered_jobs' = <<>>
    /\ stack' = <<>>
    /\ idx' = 1
    /\ entered' = [j \in AllJobs |-> 0]
    /\ last' = [NoCall EXCEPT !.op = "run", !.outcome = "running", !.dry = dry,
                              !.pre_jobs = jobs, !.pre_runs = backend_runs,
                              !.pre_job_id = job_id]
    /\ UNCHANGED <<batchVars, resVars>>

\* the loop over the job list taken from its end: `for j in reversed(self._jobs)`
ScheduleNextReversed ==
    /\ pc = "schedule"
    /\ stack = <<>>
    /\ idx <= Len(jobs)
    /\ SetRunState(schedule_job(jobs[Len(jobs) + 1 - idx], RunState))
    /\ idx' = idx + 1
    /\ UNCHANGED <<batchVars, resVars, pc, dry_run, ordered_jobs, n_calls, last,
                   fsVars, classVars>>

\* `for j in self._jobs: schedule_job(j)`: the next top-level call
ScheduleNext ==
    /\ pc = "schedule"
    /\ stack = <<>>
    /\ idx <= Len(jobs)
    /\ SetRunState(schedule_job(jobs[idx], RunState))
    /\ idx' = idx + 1
    /\ UNCHANGED <<batchVars, resVars, pc, dry_run, ordered_jobs, n_calls, last,
                   fsVars, classVars>>

\* `for p in j._dependencies: schedule_job(p)`: the set is iterated in an
\* order the program does not control
ScheduleDependency ==
    /\ pc = "schedule"
    /\ stack # <<>>
    /\ Len(stack) < MaxDepth
    /\ LET top == stack[Len(stack)]
       IN /\ top.todo # {}
          /\ \E p \in top.todo :
                SetRunState(schedule_job(p,
                    [seen |-> seen,
                     stack |-> [stack EXCEPT ![Len(stack)].todo = @ \ {p}],
                     entered |-> entered]))
    /\ UNCHANGED <<batchVars, resVars, pc, dry_run, ordered_jobs, idx, n_calls, last,
                   fsVars, classVars>>

\* schedule_job putting the job at the front: `ordered_jobs.insert(0, j)`
ScheduleAppendFront ==
    /\ pc = "schedule"
    /\ stack # <<>>
    /\ LET top == stack[Len(stack)]
       IN /\ top.todo = {}
          /\ ordered_jobs' = <<top.job>> \o ordered_jobs
          /\ stack' = SubSeq(stack, 1, Len(stack) - 1)
    /\ UNCHANGED <<batchVars, resVars, pc, dry_run, seen, idx, entered, n_calls, last,
                   fsVars, classVars>>

\* `ordered_jobs.append(j)` and the return of schedule_job
ScheduleAppend ==
    /\ pc = "schedule"
    /\ stack # <<>>
    /\ LET top == stack[Len(stack)]
       IN /\ top.todo = {}
          /\ ordered_jobs' = Append(ordered_jobs, top.job)
          /\ stack' = SubSeq(stack, 1, Len(stack) - 1)
    /\ UNCHANGED <<batchVars, resVars, pc, dry_run, seen, idx, entered, n_calls, last,
                   fsVars, classVars>>

\* job_index built with enumerate(ordered_jobs), counting from 0
job_index_from0(ord, j) ==
    IF j \in Range(ord)
    THEN (CHOOSE i \in 1..Len(ord) :
            ord[i] = j /\ \A k \in 1..Len(ord) : ord[k] = j => k <= i) - 1
    ELSE 0

\* job_index = {j: i for i, j in enumerate(ordered_jobs, start=1)}
job_index(ord, j) ==
    IF j \in Range(ord)
    THEN CHOOSE i \in 1..Len(ord) :
            ord[i] = j /\ \A k \in 1..Len(ord) : ord[k] = j => k <= i
    ELSE 0   \* not a key: excluded by the assertion of line 694

\* line 701 with `>` in place of `>=`
CycleAtStrict(ord, k) ==
    \E d \in dependencies[ord[k]] : job_index(ord, d) > job_index(ord, ord[k])

\* the test of line 701 for the job at place k of ordered_jobs
CycleAt(ord, k) ==
    \E d \in dependencies[ord[k]] : job_index(ord, d) >= job_index(ord, ord[k])

\* the first place of ordered_jobs at which line 702 raises, 0 if none
FirstCycle(ord) ==
    IF \E k \in 1..Len(ord) : CycleAt(ord, k)
    THEN CHOOSE k \in 1..Len(ord) :
            CycleAt(ord, k) /\ \A m \in 1..(k - 1) : ~CycleAt(ord, m)
    ELSE 0

\* positions after the loop of lines 697-702 has handled places 1..upto
AssignJobIds(ord, upto) ==
    [j \in JobIds |->
        IF \E k \in 1..upto : ord[k] = j THEN job_index(ord, j) ELSE job_id[j]]

\* a Batch that delegates on its first run only
BackendRunOnce == backend_runs' = IF backend_runs = 0 THEN 1 ELSE backend_runs

\* Backend._run
BackendRun == backend_runs' = backend_runs + 1

ResetRun ==
    /\ pc' = "idle"
    /\ dry_run' = FALSE
    /\ seen' = {}
    /\ ordered_jobs' = <<>>
    /\ stack' = <<>>
    /\ idx' = 0
    /\ entered' = [j \in AllJobs |-> 0]

\* run_checks without the assertion of line 694
run_checks_no_assert(dry, sn, ord) ==
    IF FirstCycle(ord) # 0 THEN "cycle" ELSE "ok"

\* run_checks of a run that validates nothing when dry_run is set
run_checks_dry_skips(dry, sn, ord) ==
    IF dry THEN "ok"
    ELSE IF Cardinality(sn) # Len(jobs) THEN "assertion"
    ELSE IF FirstCycle(ord) # 0 THEN "cycle"
    ELSE "ok"

\* how lines 694-702 end in a call run(dry_run=dry) whose traversal left the
\* set sn and the list ord: at the assertion, at the cycle error, or not at all
run_checks(dry, sn, ord) ==
    IF Cardinality(sn) # Len(jobs) THEN "assertion"
    ELSE IF FirstCycle(ord) # 0 THEN "cycle"
    ELSE "ok"

\* run, lines 694-710: the assertion, the positions, the cycle check, the
\* replacement of the job list and the delegation to the backend
RunFinish ==
    /\ pc = "schedule"
    /\ stack = <<>>
    /\ idx > Len(jobs)
    /\ LET end == run_checks(dry_run, seen, ordered_jobs)
       IN /\ last' = [last EXCEPT !.outcome = end]
          /\ IF end = "assertion"
             THEN UNCHANGED <<jobs, job_id, backend_runs>>
             ELSE IF end = "cycle"
             THEN /\ job_id' = AssignJobIds(ordered_jobs, FirstCycle(ordered_jobs))
                  /\ UNCHANGED <<jobs, backend_runs>>
             ELSE /\ job_id' = AssignJobIds(ordered_jobs, Len(ordered_jobs))
                  /\ jobs' = ordered_jobs
                  /\ BackendRun
    /\ ResetRun
    /\ UNCHANGED <<job_kind, job_token, job_name, job_attributes, job_tokens,
                   dependencies, backend, resVars, n_calls, fsVars,
                   classVars>>

RunStep == ScheduleNext \/ ScheduleDependency \/ ScheduleAppend \/ RunFinish

\* ---- the dependency graph of the Batch's jobs ----
NextGraph ==
    \/ new_bash_job(None, {}, <<1>>)
    \/ \E j \in JobIds, d \in AllJobs : depends_on(j, d)
    \/ \E dry \in BOOLEAN : RunBegin(dry)
    \/ ScheduleNext
    \/ ScheduleDependency
    \/ ScheduleAppend
    \/ RunFinish

SpecGraph == Init /\ [][NextGraph]_vars

\* run is a synchronous call: once begun it is executed to its end
FairSpecGraph == SpecGraph /\ WF_vars(RunStep)

\* ---- resources ----

\* the uid a Resource constructor mints: one never given out before
NewUid == Cardinality(DOMAIN resource_map) + 1

Register(r, kind, source) ==
    resource_map' = [u \in DOMAIN resource_map \cup {r} |->
                        IF u = r THEN [uid |-> r, kind |-> kind, source |-> source]
                        ELSE resource_map[u]]

\* Batch._new_job_resource_file(source): the file of a BashJob, or the
\* converted (as_str, as_repr, as_json) result file of a PythonJob
_new_job_resource_file(source) ==
    /\ Call
    /\ NewUid <= MaxResources
    /\ source \in Range(jobs)
    /\ Register(NewUid, "JobResourceFile", source)
    /\ last' = [NoCall EXCEPT !.op = "new_job_resource_file", !.outcome = "ok",
                              !.res = NewUid]
    /\ UNCHANGED <<batchVars, input_resources, mentioned, output_paths, runVars>>

\* Batch._new_python_result(source); its caller is a PythonJob minting its result
_new_python_result(source) ==
    /\ Call
    /\ NewUid <= MaxResources
    /\ source \in Range(jobs)
    /\ job_kind[source] = "python"
    /\ Register(NewUid, "PythonResult", source)
    /\ last' = [NoCall EXCEPT !.op = "new_python_result", !.outcome = "ok",
                              !.res = NewUid]
    /\ UNCHANGED <<batchVars, input_resources, mentioned, output_paths, runVars>>

\* read_input that mints and registers the resource before it asks the backend
read_input_mint_first(scheme_ok) ==
    /\ Call
    /\ NewUid <= MaxResources
    /\ Register(NewUid, "InputResourceFile", NoJob)
    /\ input_resources' = input_resources \cup {NewUid}
    /\ last' = [NoCall EXCEPT !.op = "read_input",
                              !.outcome = IF scheme_ok THEN "ok" ELSE "scheme_error",
                              !.res = IF scheme_ok THEN NewUid ELSE 0,
                              !.pre_map = resource_map,
                              !.pre_inputs = input_resources]
    /\ UNCHANGED <<batchVars, mentioned, output_paths, runVars>>

\* Batch.read_input -> Batch._new_input_resource_file; scheme_ok is the verdict
\* of Backend.validate_file_scheme on the path
read_input(scheme_ok) ==
    /\ Call
    /\ NewUid <= MaxResources
    /\ LET call == [NoCall EXCEPT !.op = "read_input", !.pre_map = resource_map,
                                  !.pre_inputs = input_resources]
       IN IF scheme_ok
          THEN /\ Register(NewUid, "InputResourceFile", NoJob)
               /\ input_resources' = input_resources \cup {NewUid}
               /\ last' = [call EXCEPT !.outcome = "ok", !.res = NewUid]
          ELSE /\ last' = [call EXCEPT !.outcome = "scheme_error"]
               /\ UNCHANGED <<resource_map, input_resources>>
    /\ UNCHANGED <<batchVars, mentioned, output_paths, runVars>>

\* a job body (BashJob.command, declare_resource_group, PythonJob.call) records
\* resource r in the job's mentioned set
Mention(j, r) ==
    /\ Call
    /\ j \in Range(jobs)
    /\ r \in DOMAIN resource_map
    /\ r \notin mentioned[j]
    /\ mentioned' = [mentioned EXCEPT ![j] = @ \cup {r}]
    /\ last' = [NoCall EXCEPT !.op = "mention", !.outcome = "ok"]
    /\ UNCHANGED <<batchVars, resource_map, input_resources, output_paths, runVars>>

\* hailtop.utils.url_scheme
url_scheme(dest) == IF dest = "url" THEN "gs" ELSE ""

\* os.path.abspath(os.path.expanduser(dest))
abspath(dest) == IF dest = "rel" THEN "abs" ELSE dest

\* write_output, lines 616-619
ResolveDest(dest) ==
    IF backend = "local" /\ url_scheme(dest) = "" THEN abspath(dest) ELSE dest

\* a mention test applied to every resource, whatever its class
UnmentionedByAll(r) == \A j \in Range(jobs) : r \notin mentioned[j]

\* the tests of lines 601-603 and 608-610
Unmentioned(r) ==
    LET res == resource_map[r]
    IN \/ /\ res.kind = "JobResourceFile"
          /\ job_kind[res.source] = "bash"
          /\ r \notin mentioned[res.source]
       \/ /\ res.kind = "PythonResult"
          /\ job_kind[res.source] = "python"
          /\ r \notin mentioned[res.source]

\* Resource._add_output_path
_add_output_path(r, dest) ==
    output_paths' = [output_paths EXCEPT ![r] = @ \cup {dest}]

\* Batch.write_output(resource, dest)
write_output(r, dest) ==
    /\ Call
    /\ r \in DOMAIN resource_map \cup {NotAResource}
    /\ LET call == [NoCall EXCEPT !.op = "write_output", !.res = r, !.dest = dest,
                                  !.pre_paths = IF r = NotAResource THEN {}
                                                ELSE output_paths[r]]
       IN IF r = NotAResource
          THEN /\ last' = [call EXCEPT !.outcome = "not_a_resource"]
               /\ UNCHANGED output_paths
          ELSE IF Unmentioned(r)
          THEN /\ last' = [call EXCEPT !.outcome = "undefined_resource"]
               /\ UNCHANGED output_paths
          ELSE /\ _add_output_path(r, ResolveDest(dest))
               /\ last' = [call EXCEPT !.outcome = "ok"]
    /\ UNCHANGED <<batchVars, resource_map, input_resources, mentioned, runVars>>

\* ---- resources and output bindings of the Batch ----
NextOutput ==
    \/ new_bash_job(None, {}, <<1>>)
    \/ new_python_job(None, {}, <<1>>)
    \/ \E j \in JobIds : _new_job_resource_file(j)
    \/ \E j \in JobIds : _new_python_result(j)
    \/ \E ok \in BOOLEAN : read_input(ok)
    \/ \E j \in JobIds, r \in ResIds : Mention(j, r)
    \/ \E r \in ResIds \cup {NotAResource}, dest \in Dests : write_output(r, dest)

SpecOutput == Init /\ [][NextOutput]_vars

\* ---- job tokens ----
DrawSeqs == {<<t>> : t \in Tokens} \cup {<<t, u>> : t \in Tokens, u \in Tokens}

NextTokens ==
    \/ \E draws \in DrawSeqs : new_bash_job(None, {}, draws)
    \/ \E draws \in DrawSeqs : new_python_job(None, {}, draws)

SpecTokens == Init /\ [][NextTokens]_vars

\* ---- resource groups ----

\* the map after `self._resource_map[jrf._uid] = jrf` (line 405) for a
\* resource of a fresh uid
Registered(map, kind, source) ==
    LET r == Cardinality(DOMAIN map) + 1
    IN [u \in DOMAIN map \cup {r} |->
           IF u = r THEN [uid |-> r, kind |-> kind, source |-> source] ELSE map[u]]

\* the loop of lines 431-436 over the rest of the mappings: a value that is
\* not a string raises; a string is handed to _new_job_resource_file, which
\* registers the member (line 405) before the loop goes on
RECURSIVE MintMembers(_, _, _)
MintMembers(map, source, mappings) ==
    IF mappings = <<>> THEN [map |-> map, raised |-> FALSE]
    ELSE IF Head(mappings) # "str" THEN [map |-> map, raised |-> TRUE]
    ELSE MintMembers(Registered(map, "JobResourceFile", source), source,
                     Tail(mappings))

\* Batch._new_resource_group(source, mappings)
_new_resource_group(source, mappings) ==
    /\ Call
    /\ source \in Range(jobs)
    /\ LET members == MintMembers(resource_map, source, mappings)
           call == [NoCall EXCEPT !.op = "new_resource_group",
                                  !.mappings = mappings,
                                  !.pre_map = resource_map]
       IN IF members.raised
          THEN /\ Cardinality(DOMAIN members.map) <= MaxResources
               /\ resource_map' = members.map
               /\ last' = [call EXCEPT !.outcome = "not_a_string"]
          ELSE /\ Cardinality(DOMAIN members.map) < MaxResources
               /\ resource_map' = Registered(members.map, "ResourceGroup", source)
               /\ last' = [call EXCEPT !.outcome = "ok",
                                       !.res = Cardinality(DOMAIN members.map) + 1]
    /\ UNCHANGED <<batchVars, input_resources, mentioned, output_paths, runVars>>

\* the dict comprehension of line 539: _new_input_resource_file for each file
\* in turn, files holding the backend's verdict on each path; a rejected path
\* raises, the files before it being registered already
RECURSIVE ReadInputs(_, _, _)
ReadInputs(map, inputs, files) ==
    IF files = <<>> THEN [map |-> map, inputs |-> inputs, raised |-> FALSE]
    ELSE IF ~Head(files) THEN [map |-> map, inputs |-> inputs, raised |-> TRUE]
    ELSE ReadInputs(Registered(map, "InputResourceFile", NoJob),
                    inputs \cup {Cardinality(DOMAIN map) + 1}, Tail(files))

\* read_input_group that returns a group it has not put into the resource map
read_input_group_unregistered(files) ==
    /\ Call
    /\ LET read == ReadInputs(resource_map, input_resources, files)
           call == [NoCall EXCEPT !.op = "read_input_group", !.files = files,
                                  !.pre_map = resource_map,
                                  !.pre_inputs = input_resources]
       IN /\ Cardinality(DOMAIN read.map) < MaxResources
          /\ resource_map' = read.map
          /\ input_resources' = read.inputs
          /\ last' = [call EXCEPT !.outcome = IF read.raised THEN "scheme_error" ELSE "ok",
                         !.res = IF read.raised THEN 0
                                 ELSE Cardinality(DOMAIN read.map) + 1]
    /\ UNCHANGED <<batchVars, mentioned, output_paths, runVars>>

\* Batch.read_input_group(**kwargs), lines 538-542
read_input_group(files) ==
    /\ Call
    /\ LET read == ReadInputs(resource_map, input_resources, files)
           call == [NoCall EXCEPT !.op = "read_input_group", !.files = files,
                                  !.pre_map = resource_map,
                                  !.pre_inputs = input_resources]
       IN IF read.raised
          THEN /\ Cardinality(DOMAIN read.map) <= MaxResources
               /\ resource_map' = read.map
               /\ input_resources' = read.inputs
               /\ last' = [call EXCEPT !.outcome = "scheme_error"]
          ELSE /\ Cardinality(DOMAIN read.map) < MaxResources
               /\ resource_map' = Registered(read.map, "ResourceGroup", NoJob)
               /\ input_resources' = read.inputs
               /\ last' = [call EXCEPT !.outcome = "ok",
                                       !.res = Cardinality(DOMAIN read.map) + 1]
    /\ UNCHANGED <<batchVars, mentioned, output_paths, runVars>>

\* the kwargs of read_input_group: the backend's verdict on each file path
FileLists == {<<>>, <<TRUE>>, <<FALSE>>, <<TRUE, TRUE>>, <<TRUE, FALSE>>}

NextRegistry ==
    \/ new_bash_job(None, {}, <<1>>)
    \/ new_python_job(None, {}, <<1>>)
    \/ \E j \in JobIds : _new_job_resource_file(j)
    \/ \E j \in JobIds : _new_python_result(j)
    \/ \E ok \in BOOLEAN : read_input(ok)
    \/ \E files \in FileLists : read_input_group(files)
    \/ \E j \in JobIds, mappings \in Mappings : _new_resource_group(j, mappings)

SpecRegistry == Init /\ [][NextRegistry]_vars

\* ---- select_jobs ----

\* re.match(pattern, name) is not None, for a pattern without metacharacters:
\* the pattern has to match at the start of the name
re_match(pattern, name) ==
    /\ Len(pattern) <= Len(name)
    /\ SubSeq(name, 1, Len(pattern)) = pattern

\* the comprehension of line 643 taken over the jobs in creation order
MatchingJobsByInsertion(list, pattern) ==
    LET Selected(j) == job_name[j] # None /\ re_match(pattern, job_name[j][1])
    IN SelectSeq([i \in 1..Len(list) |-> i], Selected)

\* [job for job in list if job.name is not None and re.match(pattern, job.name) is not None]
MatchingJobs(list, pattern) ==
    LET Selected(j) == job_name[j] # None /\ re_match(pattern, job_name[j][1])
    IN SelectSeq(list, Selected)

\* Batch.select_jobs
select_jobs(pattern) ==
    /\ Call
    /\ last' = [NoCall EXCEPT !.op = "select_jobs", !.outcome = "ok",
                              !.pattern = pattern,
                              !.result = MatchingJobs(jobs, pattern)]
    /\ UNCHANGED <<batchVars, resVars, runVars>>

NextSelect ==
    \/ \E name \in JobNames : new_bash_job(name, {}, <<1>>)
    \/ \E j \in JobIds, d \in JobIds : depends_on(j, d)
    \/ RunBegin(FALSE)
    \/ ScheduleNext
    \/ ScheduleDependency
    \/ ScheduleAppend
    \/ RunFinish
    \/ \E pattern \in Patterns : select_jobs(pattern)

SpecSelect == Init /\ [][NextSelect]_vars

\* ---- job attributes ----
NextJobs ==
    \/ \E name \in JobNames, attributes \in AttributeMaps :
          new_bash_job(name, attributes, <<1>>)
    \/ \E name \in JobNames, attributes \in AttributeMaps :
          new_python_job(name, attributes, <<1>>)

SpecJobs == Init /\ [][NextJobs]_vars

\* ======================= file systems =======================

\* the start of a call on a file system or a stream; a call blocks its thread
\* until it ends
FsCall == fs_pc = "idle"

\* ---- SyncWritableStream ----

\* RouterFS.open(path, 'wb') -> SyncWritableStream.__init__: enter_ok tells
\* whether cm.__aenter__() returns the async stream or raises
RouterFS_open(enter_ok) ==
    /\ FsCall
    /\ stream.state = "none"
    /\ IF enter_ok
       THEN /\ stream' = [NoStream EXCEPT !.state = "open"]
            /\ fs_last' = [NoFsCall EXCEPT !.op = "open", !.outcome = "ok"]
       ELSE /\ fs_last' = [NoFsCall EXCEPT !.op = "open", !.outcome = "error"]
            /\ UNCHANGED stream
    /\ UNCHANGED <<batchSide, rstream, store, fs_pc, copy_st, ls_st, open_st>>

\* SyncWritableStream.close: aws.close() comes first and may raise; only after
\* its return is cm.__aexit__() executed, which may raise in its turn
SyncWritableStream_close(aws_close_raises, aexit_raises) ==
    /\ FsCall
    /\ stream.state = "open"
    /\ stream.closes < MaxCloses
    /\ IF aws_close_raises
       THEN /\ stream' = [stream EXCEPT !.closes = @ + 1]
            /\ fs_last' = [NoFsCall EXCEPT !.op = "close", !.outcome = "error"]
            /\ UNCHANGED store
       ELSE /\ stream' = [stream EXCEPT !.closes = @ + 1, !.aws_closed = TRUE,
                                        !.cm_exits = @ + 1]
            /\ store' = IF aexit_raises THEN store ELSE <<stream.written>>
            /\ fs_last' = [NoFsCall EXCEPT !.op = "close",
                              !.outcome = IF aexit_raises THEN "error" ELSE "ok"]
    /\ UNCHANGED <<batchSide, rstream, fs_pc, copy_st, ls_st, open_st>>

\* write that hands only the first byte of b to the async stream
SyncWritableStream_write_first_byte(b) ==
    /\ FsCall
    /\ stream.state = "open"
    /\ ~stream.aws_closed
    /\ Len(stream.asked) + Len(b) <= MaxLen
    /\ stream.writes < MaxWrites
    /\ stream' = [stream EXCEPT !.written = @ \o (IF b = <<>> THEN <<>> ELSE <<b[1]>>), !.asked = @ \o b,
                                !.writes = @ + 1]
    /\ fs_last' = [NoFsCall EXCEPT !.op = "write", !.outcome = "ok", !.length = Len(b)]
    /\ UNCHANGED <<batchSide, rstream, store, fs_pc, copy_st, ls_st, open_st>>

\* SyncWritableStream.write, line 147: b goes to aws.write, which appends it
\* to the object being created
SyncWritableStream_write(b) ==
    /\ FsCall
    /\ stream.state = "open"
    /\ ~stream.aws_closed
    /\ Len(stream.asked) + Len(b) <= MaxLen
    /\ stream.writes < MaxWrites
    /\ stream' = [stream EXCEPT !.written = @ \o b, !.asked = @ \o b,
                                !.writes = @ + 1]
    /\ fs_last' = [NoFsCall EXCEPT !.op = "write", !.outcome = "ok", !.length = Len(b)]
    /\ UNCHANGED <<batchSide, rstream, store, fs_pc, copy_st, ls_st, open_st>>

\* ---- SyncReadableStream ----

\* RouterFS.open(path, 'rb') -> SyncReadableStream over afs.open(path), which
\* raises FileNotFoundError when no object is stored under the path
RouterFS_open_read ==
    /\ FsCall
    /\ IF store = None
       THEN /\ fs_last' = [NoFsCall EXCEPT !.op = "open_read",
                                          !.outcome = "FileNotFoundError"]
            /\ UNCHANGED rstream
       ELSE /\ rstream' = [NoReader EXCEPT !.state = "open", !.content = store[1]]
            /\ fs_last' = [NoFsCall EXCEPT !.op = "open_read", !.outcome = "ok"]
    /\ UNCHANGED <<batchSide, store, stream, fs_pc, copy_st, ls_st, open_st>>

\* what is left to read from the stream
Remaining(r) == SubSeq(r.content, r.pos + 1, Len(r.content))

\* ReadableStream.read(size) returning k bytes: all that is left for size -1
\* (k = -1), otherwise at least one and at most size bytes while any are
\* left, and none at the end of the stream
SyncReadableStream_read(size, k) ==
    /\ FsCall
    /\ rstream.state = "open"
    /\ LET left == Remaining(rstream)
           n == IF size = -1 THEN Len(left) ELSE k
           data == SubSeq(left, 1, n)
       IN /\ size = -1 => k = -1
          /\ size # -1 => /\ k <= size
                          /\ k <= Len(left)
                          /\ (Len(left) > 0) => k >= 1
                          /\ k >= 0
          /\ rstream' = [rstream EXCEPT !.pos = @ + n, !.got = @ \o data,
                             !.eof = (size = -1 \/ n = 0)]
          /\ fs_last' = [NoFsCall EXCEPT !.op = "read", !.outcome = "ok",
                                         !.result = <<data>>]
    /\ UNCHANGED <<batchSide, store, stream, fs_pc, copy_st, ls_st, open_st>>

\* readinto on top of read(len(b)): a short read is taken as it comes
SyncReadableStream_readinto_short(length) ==
    /\ FsCall
    /\ rstream.state = "open"
    /\ LET left == Remaining(rstream)
           n == IF length > Len(left) THEN Len(left) ELSE length
       IN /\ rstream' = [rstream EXCEPT !.pos = @ + n,
                                          !.got = @ \o SubSeq(left, 1, n)]
          /\ fs_last' = [NoFsCall EXCEPT !.op = "readinto", !.outcome = "ok",
                                         !.length = length, !.remaining = left,
                                         !.result = <<SubSeq(left, 1, n)>>]
    /\ UNCHANGED <<batchSide, store, stream, fs_pc, copy_st, ls_st, open_st>>

\* SyncReadableStream.readinto(b), line 74, for a buffer of the given length:
\* readexactly(len(b)) raises when the stream ends before len(b) bytes, the
\* bytes it had collected being dropped with it, and otherwise returns the
\* next len(b) bytes, which become the buffer's content
SyncReadableStream_readinto(length) ==
    /\ FsCall
    /\ rstream.state = "open"
    /\ LET left == Remaining(rstream)
           call == [NoFsCall EXCEPT !.op = "readinto", !.length = length,
                                    !.remaining = left]
       IN IF length > Len(left)
          THEN /\ rstream' = [rstream EXCEPT !.pos = Len(rstream.content),
                                               !.lost = (@ \/ Len(left) > 0)]
               /\ fs_last' = [call EXCEPT !.outcome = "UnexpectedEOFError"]
          ELSE /\ rstream' = [rstream EXCEPT !.pos = @ + length,
                                  !.got = @ \o SubSeq(left, 1, length)]
               /\ fs_last' = [call EXCEPT !.outcome = "ok",
                                          !.result = <<SubSeq(left, 1, length)>>]
    /\ UNCHANGED <<batchSide, store, stream, fs_pc, copy_st, ls_st, open_st>>

NextStream ==
    \/ RouterFS_open(TRUE)
    \/ \E b \in ByteStrings : SyncWritableStream_write(b)
    \/ \E aws_close_raises \in BOOLEAN : SyncWritableStream_close(aws_close_raises, FALSE)
    \/ RouterFS_open_read
    \/ \E size \in {-1} \cup (1..MaxLen), k \in -1..MaxLen : SyncReadableStream_read(size, k)
    \/ \E length \in 0..(MaxLen + 1) : SyncReadableStream_readinto(length)

SpecStream == Init /\ [][NextStream]_vars

\* ---- RouterFS.copy ----

\* copy, lines 181-188: the semaphore is built from max_simultaneous_transfers
\* and entered once by _copy itself; Copier.copy is handed the class
\* asyncio.Semaphore as its limiter
RouterFS_copy(max_simultaneous_transfers, n) ==
    /\ FsCall
    /\ fs_pc' = "copy"
    /\ copy_st' = [limit |-> max_simultaneous_transfers,
                   sema |-> max_simultaneous_transfers - 1,
                   limiter |-> "class", pending |-> n, in_flight |-> 0, done |-> 0]
    /\ UNCHANGED <<batchSide, rstream, store, stream, ls_st, open_st, fs_last>>

\* Copier: the start of one object transfer. A transfer takes a permit of the
\* limiter the engine was given. With a limiter that is no semaphore object
\* there is no permit to take: the part of the engine that uses the limiter
\* fails with a type error, the part that does not use it just transfers.
CopierStart(uses_limiter) ==
    /\ fs_pc = "copy"
    /\ copy_st.pending > 0
    /\ IF copy_st.limiter = "sema"
       THEN /\ copy_st.sema > 0
            /\ copy_st' = [copy_st EXCEPT !.sema = @ - 1, !.pending = @ - 1,
                                          !.in_flight = @ + 1]
            /\ UNCHANGED <<fs_pc, fs_last>>
       ELSE IF uses_limiter
       THEN /\ fs_pc' = "idle"
            /\ copy_st' = NoCopy
            /\ fs_last' = [NoFsCall EXCEPT !.op = "copy", !.outcome = "type_error"]
       ELSE /\ copy_st' = [copy_st EXCEPT !.pending = @ - 1, !.in_flight = @ + 1]
            /\ UNCHANGED <<fs_pc, fs_last>>
    /\ UNCHANGED <<batchSide, rstream, store, stream, ls_st, open_st>>

\* Copier: the end of one object transfer
CopierDone ==
    /\ fs_pc = "copy"
    /\ copy_st.in_flight > 0
    /\ copy_st' = [copy_st EXCEPT !.in_flight = @ - 1, !.done = @ + 1,
                      !.sema = IF copy_st.limiter = "sema" THEN @ + 1 ELSE @]
    /\ UNCHANGED <<batchSide, rstream, store, fs_pc, stream, ls_st, open_st, fs_last>>

\* Copier.copy returns, `async with sema` is left, copy returns
CopyReturn ==
    /\ fs_pc = "copy"
    /\ copy_st.pending = 0
    /\ copy_st.in_flight = 0
    /\ fs_pc' = "idle"
    /\ copy_st' = NoCopy
    /\ fs_last' = [NoFsCall EXCEPT !.op = "copy", !.outcome = "ok"]
    /\ UNCHANGED <<batchSide, rstream, store, stream, ls_st, open_st>>

\* ---- RouterFS.ls ----

\* ls with a pool that is given one permit per entry on top of the limit
RouterFS_ls_uncapped(_max_simultaneous_files, n) ==
    /\ FsCall
    /\ fs_pc' = "ls"
    /\ ls_st' = [limit |-> _max_simultaneous_files,
                 permits |-> _max_simultaneous_files + n,
                 fetch |-> [e \in 1..n |-> "waiting"]]
    /\ UNCHANGED <<batchSide, rstream, store, stream, copy_st, open_st, fs_last>>

\* ls, lines 234-238: the pool gets a semaphore of _max_simultaneous_files
\* permits and one task per entry that listfiles yields
RouterFS_ls(_max_simultaneous_files, n) ==
    /\ FsCall
    /\ fs_pc' = "ls"
    /\ ls_st' = [limit |-> _max_simultaneous_files,
                 permits |-> _max_simultaneous_files,
                 fetch |-> [e \in 1..n |-> "waiting"]]
    /\ UNCHANGED <<batchSide, rstream, store, stream, copy_st, open_st, fs_last>>

\* OnlineBoundedGather2: a task takes a permit and starts _fle_to_dict(fle)
PoolStart(e) ==
    /\ fs_pc = "ls"
    /\ e \in 1..Len(ls_st.fetch)
    /\ ls_st.fetch[e] = "waiting"
    /\ ls_st.permits > 0
    /\ ls_st' = [ls_st EXCEPT !.permits = @ - 1, !.fetch[e] = "running"]
    /\ UNCHANGED <<batchSide, rstream, store, fs_pc, stream, copy_st, open_st, fs_last>>

\* _fle_to_dict(fle) ends and the task gives its permit back; an error other
\* than the IsADirectoryError caught at line 229 ends the whole ls call
PoolDone(e, ok) ==
    /\ fs_pc = "ls"
    /\ e \in 1..Len(ls_st.fetch)
    /\ ls_st.fetch[e] = "running"
    /\ IF ok
       THEN /\ ls_st' = [ls_st EXCEPT !.permits = @ + 1, !.fetch[e] = "done"]
            /\ UNCHANGED <<fs_pc, fs_last>>
       ELSE /\ fs_pc' = "idle"
            /\ ls_st' = NoLs
            /\ fs_last' = [NoFsCall EXCEPT !.op = "ls", !.outcome = "error",
                                          !.entries = Len(ls_st.fetch)]
    /\ UNCHANGED <<batchSide, rstream, store, stream, copy_st, open_st>>

\* ls, line 239: gather returns the results of all tasks once every task is done
LsReturn ==
    /\ fs_pc = "ls"
    /\ \A e \in 1..Len(ls_st.fetch) : ls_st.fetch[e] = "done"
    /\ fs_pc' = "idle"
    /\ ls_st' = NoLs
    /\ fs_last' = [NoFsCall EXCEPT !.op = "ls", !.outcome = "ok",
                      !.entries = Len(ls_st.fetch),
                      !.result = [e \in 1..Len(ls_st.fetch) |-> ls_st.fetch[e]]]
    /\ UNCHANGED <<batchSide, rstream, store, stream, copy_st, open_st>>

\* ---- RouterFS.stat ----

\* stat that takes a failed size lookup for a missing path
stat_result_strict(size_bytes, is_dir) ==
    IF size_bytes = None
    THEN [outcome |-> "FileNotFoundError", result |-> None]
    ELSE [outcome |-> "ok",
          result |-> <<[is_dir |-> is_dir, size |-> size_bytes[1]]>>]

\* stat, lines 219-223; size_bytes is None or <<size>>
stat_result(size_bytes, is_dir) ==
    IF size_bytes = None
    THEN IF ~is_dir
         THEN [outcome |-> "FileNotFoundError", result |-> None]
         ELSE [outcome |-> "ok", result |-> <<[is_dir |-> TRUE, size |-> 0]>>]
    ELSE [outcome |-> "ok",
          result |-> <<[is_dir |-> is_dir, size |-> size_bytes[1]]>>]

\* RouterFS.stat(path): size_bytes is what size_bytes_or_none returns for the
\* path, is_dir what _async_is_dir returns
RouterFS_stat(size_bytes, is_dir) ==
    /\ FsCall
    /\ LET r == stat_result(size_bytes, is_dir)
       IN fs_last' = [NoFsCall EXCEPT !.op = "stat", !.outcome = r.outcome,
                         !.size_bytes = size_bytes, !.is_dir = is_dir,
                         !.result = r.result]
    /\ UNCHANGED <<batchSide, rstream, store, fs_pc, stream, copy_st, ls_st, open_st>>

\* ---- LocalFS.open ----

\* LocalFS.open(path, mode): write tells whether 'w' is in mode, parent
\* whether the parent directory of path exists
LocalFS_open(write, parent) ==
    /\ FsCall
    /\ fs_pc' = "open"
    /\ open_st' = [NoOpen EXCEPT !.write = write, !.parent = parent,
                                 !.missing = ~parent, !.stage = "first"]
    /\ UNCHANGED <<batchSide, rstream, store, stream, copy_st, ls_st, fs_last>>

\* the end of a LocalFS.open call
OpenEnds(st, outcome) ==
    /\ fs_pc' = "idle"
    /\ open_st' = NoOpen
    /\ fs_last' = [NoFsCall EXCEPT !.op = "local_open", !.outcome = outcome,
                      !.write = st.write, !.missing = st.missing,
                      !.attempts = st.attempts, !.makedirs = st.makedirs]

\* lines 16 and 20: the builtin open. It raises FileNotFoundError when the
\* parent directory is missing; otherwise err is its outcome: "none", or an
\* error, which can still be FileNotFoundError (a missing file in read mode, a
\* dangling link in write mode). Only FileNotFoundError in write mode is caught.
LocalOpenFirst(err) ==
    /\ fs_pc = "open"
    /\ open_st.stage = "first"
    /\ ~open_st.parent => err = "FileNotFoundError"
    /\ LET st == [open_st EXCEPT !.attempts = @ + 1]
       IN IF open_st.write /\ err = "FileNotFoundError"
          THEN /\ open_st' = [st EXCEPT !.stage = "makedirs"]
               /\ UNCHANGED <<fs_pc, fs_last>>
          ELSE OpenEnds(st, IF err = "none" THEN "ok" ELSE err)
    /\ UNCHANGED <<batchSide, rstream, store, stream, copy_st, ls_st>>

\* line 18: os.makedirs(os.path.dirname(path)), which may itself fail, and
\* does fail when the directory exists
LocalMakedirs(ok) ==
    /\ fs_pc = "open"
    /\ open_st.stage = "makedirs"
    /\ open_st.parent => ~ok
    /\ LET st == [open_st EXCEPT !.makedirs = @ + 1]
       IN IF ok
          THEN /\ open_st' = [st EXCEPT !.parent = TRUE, !.stage = "retry"]
               /\ UNCHANGED <<fs_pc, fs_last>>
          ELSE OpenEnds(st, "makedirs_error")
    /\ UNCHANGED <<batchSide, rstream, store, stream, copy_st, ls_st>>

\* a second open that goes back to creating the directories when it fails
LocalOpenRetryAgain(err) ==
    /\ fs_pc = "open"
    /\ open_st.stage = "retry"
    /\ LET st == [open_st EXCEPT !.attempts = @ + 1]
       IN IF err = "none"
          THEN OpenEnds(st, "ok")
          ELSE /\ st.attempts <= 3
               /\ open_st' = [st EXCEPT !.stage = "makedirs"]
               /\ UNCHANGED <<fs_pc, fs_last>>
    /\ UNCHANGED <<batchSide, rstream, store, stream, copy_st, ls_st>>

\* line 19: the second open, outside any try: whatever it raises leaves the call
LocalOpenRetry(err) ==
    /\ fs_pc = "open"
    /\ open_st.stage = "retry"
    /\ LET st == [open_st EXCEPT !.attempts = @ + 1]
       IN OpenEnds(st, IF err = "none" THEN "ok" ELSE err)
    /\ UNCHANGED <<batchSide, rstream, store, stream, copy_st, ls_st>>

OpenErrors == {"none", "PermissionError", "FileNotFoundError"}

NextFS ==
    \/ \E enter_ok \in BOOLEAN : RouterFS_open(enter_ok)
    \/ \E a, b \in BOOLEAN : SyncWritableStream_close(a, b)
    \/ \E limit \in Limits, n \in Counts : RouterFS_copy(limit, n)
    \/ \E uses_limiter \in BOOLEAN : CopierStart(uses_limiter)
    \/ CopierDone
    \/ CopyReturn
    \/ \E limit \in Limits, n \in Counts : RouterFS_ls(limit, n)
    \/ \E e \in 1..MaxEntries : PoolStart(e)
    \/ \E e \in 1..MaxEntries, ok \in BOOLEAN : PoolDone(e, ok)
    \/ LsReturn
    \/ \E size \in {None} \cup {<<n>> : n \in Sizes}, is_dir \in BOOLEAN :
          RouterFS_stat(size, is_dir)
    \/ \E write, parent \in BOOLEAN : LocalFS_open(write, parent)
    \/ \E err \in OpenErrors : LocalOpenFirst(err)
    \/ \E ok \in BOOLEAN : LocalMakedirs(ok)
    \/ \E err \in OpenErrors : LocalOpenRetry(err)

SpecFS == Init /\ [][NextFS]_vars

\* ======================= the class Batch and its objects =======================

\* Batch._get_uid: the uid is made of the class counter, which is then incremented
_get_uid == [uid |-> _counter, counter |-> _counter + 1]

\* Batch.__init__, lines 159-182: fresh collections of the object's own, a
\* uid from the class counter, then the test of the attributes argument
Batch_init(attributes) ==
    /\ _counter <= MaxBatches
    /\ Len(batches) < MaxBatches
    /\ _counter' = _get_uid.counter
    /\ IF "name" \in attributes
       THEN /\ batch_last' = [op |-> "init", batch |-> 0, outcome |-> "config_error"]
            /\ UNCHANGED batches
       ELSE /\ batches' = Append(batches, [uid |-> _get_uid.uid, jobs |-> <<>>])
            /\ batch_last' = [op |-> "init", batch |-> Len(batches) + 1,
                              outcome |-> "ok"]
    /\ UNCHANGED <<batchVars, resVars, runVars, n_calls, last, fsVars>>

\* new_job on a class whose job list is one list shared by all of its objects
Batch_new_job_shared(b) ==
    /\ b \in 1..Len(batches)
    /\ Len(batches[b].jobs) < MaxJobs
    /\ batches' = [c \in 1..Len(batches) |->
                      [batches[c] EXCEPT !.jobs = Append(@, Len(@) + 1)]]
    /\ batch_last' = [op |-> "new_job", batch |-> b, outcome |-> "ok"]
    /\ UNCHANGED <<batchVars, resVars, runVars, n_calls, last, fsVars, _counter>>

\* new_job on object b, line 324: `self._jobs.append(j)`
Batch_new_job(b) ==
    /\ b \in 1..Len(batches)
    /\ Len(batches[b].jobs) < MaxJobs
    /\ batches' = [batches EXCEPT ![b].jobs = Append(@, Len(@) + 1)]
    /\ batch_last' = [op |-> "new_job", batch |-> b, outcome |-> "ok"]
    /\ UNCHANGED <<batchVars, resVars, runVars, n_calls, last, fsVars, _counter>>

NextClass ==
    \/ \E attributes \in AttributeMaps : Batch_init(attributes)
    \/ \E b \in 1..MaxBatches : Batch_new_job(b)

SpecClass == Init /\ [][NextClass]_vars

\* ======================= properties =======================

\* a run call has returned or raised
RunDone == pc = "idle" /\ last.op = "run"
RunOk == RunDone /\ last.outcome = "ok"

\* every dependency of the Batch's jobs is itself a job of the Batch
InBatch == \A j \in Range(jobs) : dependencies[j] \subseteq Range(jobs)

\* b is reached from a along at most n dependency edges
RECURSIVE PathWithin(_, _, _)
PathWithin(a, b, n) ==
    /\ n > 0
    /\ \/ b \in dependencies[a]
       \/ \E c \in dependencies[a] : PathWithin(c, b, n - 1)

Cyclic == \E j \in Range(jobs) : PathWithin(j, j, Len(jobs))

\* the place of job j in sequence s
PlaceOf(s, j) == CHOOSE i \in 1..Len(s) : s[i] = j

\* C1: on an acyclic dependency graph over the Batch's jobs run raises no
\* error and leaves a job list in which every job stands strictly after each
\* of its dependencies.
C1_DependenciesFirst ==
    (RunDone /\ InBatch /\ ~Cyclic) =>
        /\ last.outcome = "ok"
        /\ \A j \in Range(jobs) : \A d \in dependencies[j] :
              PlaceOf(jobs, d) < PlaceOf(jobs, j)

\* a run that had to move a job behind a dependency created after it
C1_Witness ==
    /\ RunOk
    /\ jobs # last.pre_jobs
    /\ \E j \in Range(jobs) : \E d \in dependencies[j] : d > j

\* C2: when the graph over the Batch's jobs has a cycle of any length, run
\* ends with the cycle-detected error and Backend._run has not been called by
\* that run.
C2_CycleRejected ==
    (RunDone /\ InBatch /\ Cyclic) =>
        /\ last.outcome = "cycle"
        /\ backend_runs = last.pre_runs

\* a rejected cycle through three jobs, with no shorter cycle in the graph
C2_Witness ==
    /\ RunDone
    /\ last.outcome = "cycle"
    /\ InBatch
    /\ \A j \in Range(jobs) : ~PathWithin(j, j, 2)

\* C3: when run reaches the backend, the job list is a permutation of the job
\* list the run started from: same length, every job exactly once.
C3_Permutation ==
    RunOk =>
        /\ Len(jobs) = Len(last.pre_jobs)
        /\ \A j \in Range(last.pre_jobs) :
              Cardinality({i \in 1..Len(jobs) : jobs[i] = j}) = 1

\* a delegated run over three jobs that changed their order
C3_Witness ==
    /\ RunOk
    /\ Len(jobs) = MaxJobs
    /\ jobs # last.pre_jobs

\* two jobs that depend on each other
DirectTwoCycle ==
    \E a \in Range(jobs), b \in Range(jobs) :
        a # b /\ b \in dependencies[a] /\ a \in dependencies[b]

\* C4: the traversal ends on every graph, cycles included: schedule_job gets
\* past its seen test at most once per job, every run that has begun returns
\* or raises, and a direct 2-cycle ends in the cycle-detected error.
C4_Terminates ==
    /\ [](\A j \in AllJobs : entered[j] <= 1)
    /\ [](RunDone /\ InBatch /\ DirectTwoCycle => last.outcome = "cycle")
    /\ (pc = "schedule") ~> RunDone

\* the run of a Batch whose jobs 1 and 2 depend on each other has raised
C4_Witness ==
    /\ RunDone
    /\ last.outcome = "cycle"
    /\ 2 \in dependencies[1]
    /\ 1 \in dependencies[2]

\* C8: after a run that reached the backend each job's position is its
\* 1-based place in the job list.
C8_PositionsAreIndexes ==
    RunOk => \A i \in 1..Len(jobs) : job_id[jobs[i]] = i

\* J1 without dependencies, J2 depending on J1, after run(dry_run=True)
C8_Witness ==
    /\ RunOk
    /\ last.dry
    /\ jobs = <<1, 2>>
    /\ dependencies[1] = {}
    /\ dependencies[2] = {1}
    /\ job_id[1] = 1
    /\ job_id[2] = 2

\* C9 as stated: a Batch delegates to the backend at most once.
C9_SingleSubmission == backend_runs <= 1

\* C9 amended: every run that passes its checks, the first as well as a later
\* one on the same Batch, leaves an ordered job list and has called
\* Backend._run exactly once.
C9_EveryRunDelegates ==
    RunOk =>
        /\ backend_runs = last.pre_runs + 1
        /\ \A j \in Range(jobs) : \A d \in dependencies[j] :
              d \in Range(jobs) /\ PlaceOf(jobs, d) < PlaceOf(jobs, j)

\* a second delegated run of one Batch, over a job list the first run ordered
C9_Witness ==
    /\ RunOk
    /\ last.pre_runs = 1
    /\ backend_runs = 2

\* the members of S in ascending order
RECURSIVE Ascending(_)
Ascending(S) ==
    IF S = {} THEN <<>>
    ELSE LET m == CHOOSE x \in S : \A y \in S : x <= y
         IN <<m>> \o Ascending(S \ {m})

\* the traversal of lines 683-692 when every dependency set is iterated in
\* ascending order of job creation
RECURSIVE VisitAscending(_, _), VisitAllAscending(_, _)
VisitAscending(j, st) ==
    IF j \in st.seen THEN st
    ELSE LET after == VisitAllAscending(Ascending(dependencies[j]),
                                        [seen |-> st.seen \cup {j}, ord |-> st.ord])
         IN [seen |-> after.seen, ord |-> Append(after.ord, j)]
VisitAllAscending(js, st) ==
    IF js = <<>> THEN st
    ELSE VisitAllAscending(Tail(js), VisitAscending(Head(js), st))

\* C10: the job sequence a run produces is fixed by the insertion order and
\* the dependency sets; it is the one obtained under any one iteration order
\* of the dependency sets, here the ascending one.
C10_OrderIndependent ==
    RunOk => jobs = VisitAllAscending(last.pre_jobs, [seen |-> {}, ord |-> <<>>]).ord

\* C5: no two jobs of one Batch hold the same token.
C5_DistinctTokens ==
    \A a \in Range(jobs), b \in Range(jobs) : a # b => job_token[a] # job_token[b]

WriteDone == last.op = "write_output" /\ last.res # NotAResource

\* C6: write_output on a JobResourceFile or PythonResult that is not in its
\* producing job's mentioned set, whichever class that job has, ends in the
\* undefined-resource error and adds no destination to the resource.
C6_UnmentionedRejected ==
    (/\ WriteDone
     /\ resource_map[last.res].kind \in {"JobResourceFile", "PythonResult"}
     /\ last.res \notin mentioned[resource_map[last.res].source]) =>
        /\ last.outcome = "undefined_resource"
        /\ output_paths[last.res] = last.pre_paths

\* C7: write_output on an InputResourceFile succeeds whatever the jobs'
\* mentioned sets hold, and the destination (made absolute when it has no
\* scheme and the backend is local) is recorded on the resource.
C7_InputAlwaysWritable ==
    (WriteDone /\ resource_map[last.res].kind = "InputResourceFile") =>
        /\ last.outcome = "ok"
        /\ (IF backend = "local" /\ last.dest = "rel" THEN "abs" ELSE last.dest)
              \in output_paths[last.res]

\* an input that no job mentions has been written out, another resource of
\* the Batch being mentioned
C7_Witness ==
    /\ WriteDone
    /\ resource_map[last.res].kind = "InputResourceFile"
    /\ last.outcome = "ok"
    /\ jobs # <<>>
    /\ \A j \in Range(jobs) : last.res \notin mentioned[j]
    /\ \E j \in Range(jobs) : mentioned[j] # {}

\* the traversal has reached a job that is not in the Batch's job list
VisitsForeign == \E j \in Range(jobs) : ForeignJob \in dependencies[j]

\* C11: when a job of the Batch depends on a job the Batch never appended,
\* run stops at the assertion of line 694: no position has been assigned, the
\* job list has not been replaced and Backend._run has not been called.
C11_ForeignJobAborts ==
    (RunDone /\ VisitsForeign) =>
        /\ last.outcome = "assertion"
        /\ job_id = last.pre_job_id
        /\ jobs = last.pre_jobs
        /\ backend_runs = last.pre_runs

\* a run stopped by the assertion on a Batch that an earlier run had ordered
C11_Witness ==
    /\ RunDone
    /\ VisitsForeign
    /\ last.outcome = "assertion"
    /\ last.pre_runs = 1
    /\ \E j \in Range(jobs) : job_id[j] # 0

\* the traversal of run is over and lines 694-702 are about to be executed
AtChecks == pc = "schedule" /\ stack = <<>> /\ idx > Len(jobs)

\* how the dependency graph alone says a run has to end
ExpectedEnd ==
    IF VisitsForeign THEN "assertion"
    ELSE IF Cyclic THEN "cycle"
    ELSE "ok"

SelectDone == pc = "idle" /\ last.op = "select_jobs"

\* the named jobs of the Batch whose name the pattern matches
Matching(pattern) ==
    {j \in Range(jobs) : job_name[j] # None /\ re_match(pattern, job_name[j][1])}

\* C17 as stated: before or after run, select_jobs returns the matching named
\* jobs in the order in which they were inserted into the Batch.
C17_InsertionOrder ==
    SelectDone =>
        /\ Range(last.result) = Matching(last.pattern)
        /\ \A a, b \in 1..Len(last.result) : a < b => last.result[a] < last.result[b]

\* C17, amended: select_jobs returns each matching named job once, in the
\* order of the Batch's current job list, which is the insertion order until
\* a run has replaced the list by the linearized one.
C17_JobListOrder ==
    SelectDone =>
        /\ Range(last.result) = Matching(last.pattern)
        /\ \A a, b \in 1..Len(last.result) :
              a < b => PlaceOf(jobs, last.result[a]) < PlaceOf(jobs, last.result[b])
        /\ (\A i \in 1..Len(jobs) : jobs[i] = i) =>
              \A a, b \in 1..Len(last.result) : a < b => last.result[a] < last.result[b]

\* a selection, after a run that moved a job, that returns two jobs against
\* their insertion order and leaves out an unnamed job
C17_Witness ==
    /\ SelectDone
    /\ backend_runs = 1
    /\ Len(last.result) = 2
    /\ last.result[1] > last.result[2]
    /\ \E j \in Range(jobs) : job_name[j] = None

\* C18 as stated: new_job with an attributes argument holding the key "name"
\* fails with a configuration error and appends no job.
C18_ReservedNameRejected ==
    (last.op = "new_job" /\ "name" \in last.attributes) =>
        /\ last.outcome = "config_error"
        /\ jobs = last.pre_jobs

\* C12 as stated: _new_resource_group either registers every member and the
\* group, or, when a mapping value is not a string and the call fails, leaves
\* the resource map exactly as it was before the call.
C12_GroupAtomic ==
    (last.op = "new_resource_group") =>
        \/ /\ last.outcome = "ok"
           /\ Cardinality(DOMAIN resource_map)
                 = Cardinality(DOMAIN last.pre_map) + Len(last.mappings) + 1
           /\ resource_map[last.res].kind = "ResourceGroup"
        \/ /\ last.outcome = "not_a_string"
           /\ resource_map = last.pre_map

\* C13 as stated: once close() has been called on a successfully opened
\* write stream, __aexit__ of its context manager has been executed, also
\* when closing the underlying writable stream raised.
C13_CloseReleasesContext ==
    (stream.state = "open" /\ fs_last.op = "close") => stream.cm_exits >= 1

\* C14 as stated: the limiter that bounds the Copier's transfers is the
\* semaphore built from max_simultaneous_transfers, and the transfers in
\* flight never exceed that parameter.
C14_TransfersBounded ==
    (fs_pc = "copy") =>
        /\ copy_st.limiter = "sema"
        /\ copy_st.in_flight <= copy_st.limit

\* entries of the running ls call whose metadata is being fetched
Fetching == {e \in 1..Len(ls_st.fetch) : ls_st.fetch[e] = "running"}

\* C15: during an ls call at most _max_simultaneous_files metadata fetches
\* run at a time, and an ls call that returns has a result for each listed
\* entry, each from a completed fetch.
C15_FetchesBounded ==
    /\ (fs_pc = "ls") => Cardinality(Fetching) <= ls_st.limit
    /\ (fs_last.op = "ls" /\ fs_last.outcome = "ok") =>
          /\ Len(fs_last.result) = fs_last.entries
          /\ \A e \in 1..fs_last.entries : fs_last.result[e] = "done"

\* the pool is full while one entry waits for a permit and another is done
C15_Witness ==
    /\ fs_pc = "ls"
    /\ Cardinality(Fetching) = ls_st.limit
    /\ \E e \in 1..Len(ls_st.fetch) : ls_st.fetch[e] = "waiting"
    /\ \E e \in 1..Len(ls_st.fetch) : ls_st.fetch[e] = "done"

\* C16: LocalFS.open creates parent directories at most once and opens at
\* most twice per call, the second time only after it has created the
\* parents. A write-mode open on a path whose parent directory is missing
\* creates the parents once and, when that succeeded, opens exactly once
\* more; whatever the second open raises is the call's outcome.
C16_RetryOnce ==
    /\ open_st.attempts <= 2
    /\ open_st.makedirs <= 1
    /\ (fs_last.op = "local_open") =>
          /\ fs_last.attempts <= 2
          /\ fs_last.makedirs <= 1
          /\ fs_last.attempts = 2 => fs_last.makedirs = 1
          /\ (fs_last.write /\ fs_last.missing) =>
                /\ fs_last.makedirs = 1
                /\ fs_last.outcome # "makedirs_error" => fs_last.attempts = 2
          /\ ~fs_last.write => (fs_last.makedirs = 0 /\ fs_last.attempts = 1)

\* a write-mode open whose second attempt failed after the parents were created
C16_Witness ==
    /\ fs_last.op = "local_open"
    /\ fs_last.write
    /\ fs_last.missing
    /\ fs_last.makedirs = 1
    /\ fs_last.attempts = 2
    /\ fs_last.outcome = "FileNotFoundError"

\* C20: stat of a path whose size lookup finds nothing returns a directory
\* entry of size 0 when the path is a directory and raises FileNotFoundError
\* when it is not; when the lookup finds a size, the result carries that size.
C20_StatCases ==
    (fs_last.op = "stat") =>
        IF fs_last.size_bytes = None
        THEN IF fs_last.is_dir
             THEN /\ fs_last.outcome = "ok"
                  /\ fs_last.result = <<[is_dir |-> TRUE, size |-> 0]>>
             ELSE /\ fs_last.outcome = "FileNotFoundError"
                  /\ fs_last.result = None
        ELSE /\ fs_last.outcome = "ok"
             /\ fs_last.result[1].size = fs_last.size_bytes[1]
             /\ fs_last.result[1].is_dir = fs_last.is_dir

\* stat of a directory that has no object of its own
C20_Witness ==
    /\ fs_last.op = "stat"
    /\ fs_last.size_bytes = None
    /\ fs_last.is_dir
    /\ fs_last.outcome = "ok"
    /\ fs_last.result[1].size = 0

\* in list every job stands after each of its dependencies
ValidOrder(list) ==
    \A j \in Range(list) : \A d \in dependencies[j] :
        d \in Range(list) /\ PlaceOf(list, d) < PlaceOf(list, j)

\* positions pos are the indexes of list
IndexedBy(pos, list) == \A i \in 1..Len(list) : pos[list[i]] = i

\* C25: a run on a job list in which every job already stands after all of
\* its dependencies ends without error and leaves the list in exactly that
\* order, each job's position being its index; positions that were the
\* indexes before the run are unchanged.
C25_Idempotent ==
    (RunDone /\ ValidOrder(last.pre_jobs)) =>
        /\ last.outcome = "ok"
        /\ jobs = last.pre_jobs
        /\ IndexedBy(job_id, jobs)
        /\ IndexedBy(last.pre_job_id, last.pre_jobs) => job_id = last.pre_job_id

\* a second run on the list that a first run had to reorder
C25_Witness ==
    /\ RunOk
    /\ last.pre_runs = 1
    /\ last.pre_jobs = <<2, 1>>
    /\ dependencies[1] = {2}
    /\ jobs = <<2, 1>>
    /\ job_id = last.pre_job_id

\* C26 as stated: a run that fails with the cycle error leaves the job list
\* in its order and every job's position as it was before the call.
C26_FailedRunLeavesBatch ==
    (RunDone /\ last.outcome = "cycle") =>
        /\ jobs = last.pre_jobs
        /\ job_id = last.pre_job_id

\* C24: read_input asks the backend about the path's scheme before it mints
\* anything. A rejected path leaves the resource map and the input-resource
\* set as they were; an accepted one adds exactly one new InputResourceFile
\* to both.
C24_ValidatesBeforeMinting ==
    (last.op = "read_input") =>
        IF last.outcome = "scheme_error"
        THEN /\ resource_map = last.pre_map
             /\ input_resources = last.pre_inputs
        ELSE /\ last.outcome = "ok"
             /\ last.res \notin DOMAIN last.pre_map
             /\ DOMAIN resource_map = DOMAIN last.pre_map \cup {last.res}
             /\ \A u \in DOMAIN last.pre_map : resource_map[u] = last.pre_map[u]
             /\ resource_map[last.res].kind = "InputResourceFile"
             /\ input_resources = last.pre_inputs \cup {last.res}

\* a rejected read_input on a Batch that already holds an input resource
C24_Witness ==
    /\ last.op = "read_input"
    /\ last.outcome = "scheme_error"
    /\ input_resources # {}
    /\ resource_map = last.pre_map

\* every input resource is registered, every entry of the resource map is
\* under the uid of its resource, and so is the resource the last factory
\* call returned
RegistryInv ==
    /\ input_resources \subseteq DOMAIN resource_map
    /\ \A u \in input_resources : resource_map[u].kind = "InputResourceFile"
    /\ \A u \in DOMAIN resource_map : resource_map[u].uid = u
    /\ (last.outcome = "ok" /\ last.res # 0) => last.res \in DOMAIN resource_map

\* a step removes no entry from the resource map and changes none
KeepsEntries ==
    /\ DOMAIN resource_map \subseteq DOMAIN resource_map'
    /\ \A u \in DOMAIN resource_map : resource_map'[u] = resource_map[u]

\* C28: over any sequence of factory operations, every input resource is
\* registered in the resource map under its own uid, every resource a factory
\* returns is registered under its own uid, and no operation removes an
\* entry of the resource map.
C28_RegistryInvariant == [](RegistryInv) /\ [][KeepsEntries]_vars

\* a read_input_group call has returned its group, registered with its file
C28_Witness ==
    /\ last.op = "read_input_group"
    /\ last.outcome = "ok"
    /\ last.files = <<TRUE>>
    /\ resource_map[last.res].kind = "ResourceGroup"
    /\ input_resources # {}
    /\ input_resources \subseteq DOMAIN resource_map

\* a step leaves alone every Batch object but the one it is made on
OthersUntouched ==
    \A b \in 1..Len(batches) : b # batch_last'.batch => batches'[b] = batches[b]

\* C23 as stated: no step, construction included, changes state that another
\* Batch object or a later construction reads.
C23_NoSharedState == [][OthersUntouched /\ _counter' = _counter]_vars

\* C23, amended: the one state shared by Batch objects is the class counter
\* Batch._counter, which every construction reads and increments and nothing
\* else changes; it gives the objects distinct uids. A call on one object
\* changes nothing of another object.
C23_OnlyCounterShared ==
    /\ [][/\ OthersUntouched
          /\ _counter' # _counter =>
                (batch_last'.op = "init" /\ _counter' = _counter + 1)]_vars
    /\ [](\A b, c \in 1..Len(batches) :
              /\ batches[b].uid < _counter
              /\ b # c => batches[b].uid # batches[c].uid)

\* two Batch objects, a job created on the first only, after a construction
\* that failed in between
C23_Witness ==
    /\ Len(batches) = 2
    /\ batches[1].jobs # <<>>
    /\ batches[2].jobs = <<>>
    /\ batches[2].uid = batches[1].uid + 2
    /\ batch_last.op = "new_job"
    /\ batch_last.batch = 1

\* C27 as stated: whatever close() calls are made on one write stream, its
\* context manager is exited at most once.
C27_ExitAtMostOnce == stream.cm_exits <= 1

\* ---- C21 ----

ReadintoDone == fs_last.op = "readinto"

\* C21: readinto with a buffer longer than what is left of the stream fails
\* with the short-read error; with a buffer exactly as long as what is left it
\* succeeds and the buffer holds exactly those bytes; the caller tells the two
\* apart by the exception.
C21_ShortReadDistinct ==
    ReadintoDone =>
        /\ (fs_last.length > Len(fs_last.remaining)
                => /\ fs_last.outcome = "UnexpectedEOFError"
                   /\ fs_last.result = None)
        /\ (fs_last.length = Len(fs_last.remaining)
                => /\ fs_last.outcome = "ok"
                   /\ fs_last.result = <<fs_last.remaining>>)

\* a buffer one byte too long for a stream with a byte left has failed
C21_Witness ==
    /\ ReadintoDone
    /\ Len(fs_last.remaining) >= 1
    /\ fs_last.length = Len(fs_last.remaining) + 1
    /\ fs_last.outcome = "UnexpectedEOFError"

\* ---- C22 ----

\* a read stream read to its end with nothing dropped on the way
Exhausted == rstream.state = "open" /\ rstream.eof /\ ~rstream.lost

====
